---- MODULE Spec2Model ----
(***************************************************************************)
(* A model of src/polymarket_tracker.py: the wallet registry and its       *)
(* commands, the short cycle (check_new_trades) with its dedup set, the    *)
(* summary pass (generate_wallet_summary) and the scheduler set up by      *)
(* run().                                                                  *)
(*                                                                         *)
(* Python strings that the code slices, lowercases or measures are         *)
(* sequences of one-character strings; strings that are only compared are  *)
(* TLA+ strings.  Money is in whole dollars and prices in hundredths.      *)
(***************************************************************************)
EXTENDS Integers, Sequences, FiniteSets, TLC

VARIABLES
    wallets,        \* self.wallets: the dict's entry array, in insertion order
    wallets_file,   \* the content of wallets.json
    reply,          \* the last reply a command handler sent to its caller
    last_cmd,       \* the last command received: [op, args]
    cmds,           \* number of commands received
    seen_txs,       \* self.seen_txs
    notified,       \* per hash, the trade notifications handed to send_telegram
    passes,         \* number of check_new_trades passes started
    chk_pc,         \* position of the check_new_trades coroutine
    chk_it,         \* the dict iterator of its for statement
    chk_cur,        \* (address, name) of the current iteration
    chk_acts,       \* the activities of the current wallet not yet looked at
    chk_result,     \* how the last pass ended
    chk_snapshot,   \* the registry's items when the pass started
    chk_fetched,    \* the addresses fetched by the pass, in order
    chk_errs,       \* the addresses whose records raised in the pass
    chk_dups,       \* the hashes the pass skipped as already seen
    started,        \* run() has started the application
    job_queue,      \* the callbacks run() gave to job_queue.run_repeating
    sum_pc,         \* position of the generate_wallet_summary coroutine
    sum_caller,     \* who awaits it: "job" (periodic_summary) or "cmd" (cmd_summary)
    sum_it,         \* the dict iterator of its for statement
    sum_cur,        \* (address, name) of the current iteration
    sum_acts,       \* the activities of the current wallet not yet folded
    market_buys,    \* its local market_buys, in insertion order
    total_trades,   \* its local total_trades
    sum_snapshot,   \* the registry's keys when the pass started
    sum_returned,   \* how many TRADE records with a title the pass was returned
    sum_folded,     \* the (address, name, record) triples the pass folded, in order
    sum_fetched,    \* the addresses fetched by the pass, in order
    sum_result,     \* how the last summary pass ended
    sum_report,     \* what generate_wallet_summary returned
    sum_sent,       \* whether the pass handed a summary to send_telegram
    tracked_wallets, \* the words of the environment's TRACKED_WALLETS
    boots,          \* how many times the process was started again
    fold_pairs,     \* a collection of (address, name, record) triples to fold
    fold_order,     \* the indices of fold_pairs folded so far, in the order of folding
    fold_mb,        \* the market_buys they were folded into
    fold_total,     \* the total_trades of that fold
    send_msg,       \* the message of the send_telegram call in flight
    send_pc,        \* position of that send_telegram coroutine
    send_i,         \* the i of its for statement
    send_out,       \* the texts the channel took from it, in order
    send_err,       \* whether its except clause logged a failure
    seen_order,     \* history: the members of seen_txs, oldest insertion first
    chk_failed      \* history: the hashes whose notification the channel refused

vars == <<wallets, wallets_file, reply, last_cmd, cmds, seen_txs, notified,
          passes, chk_pc, chk_it, chk_cur, chk_acts, chk_result, chk_snapshot,
          chk_fetched, chk_errs, chk_dups, started, job_queue, sum_pc, sum_caller,
          sum_it, sum_cur, sum_acts, market_buys, total_trades, sum_snapshot,
          sum_returned, sum_folded, sum_fetched, sum_result, sum_report, sum_sent,
          tracked_wallets, boots, fold_pairs, fold_order, fold_mb, fold_total,
          send_msg, send_pc, send_i, send_out, send_err, seen_order, chk_failed>>

regVars == <<wallets, wallets_file, reply, last_cmd, cmds>>
chkVars == <<seen_txs, notified, passes, chk_pc, chk_it, chk_cur, chk_acts,
             chk_result, chk_snapshot, chk_fetched, chk_errs, chk_dups>>
runVars == <<started, job_queue>>
envVars == <<tracked_wallets, boots>>
foldVars == <<fold_pairs, fold_order, fold_mb, fold_total>>
\* what no handler and no job of the running bot changes
sendVars == <<send_msg, send_pc, send_i, send_out, send_err>>
\* the history a specification may keep of the short cycle
histVars == <<seen_order, chk_failed>>
otherVars == <<envVars, foldVars, sendVars, histVars>>
sumVars == <<sum_pc, sum_caller, sum_it, sum_cur, sum_acts, market_buys, total_trades,
             sum_snapshot, sum_returned, sum_folded, sum_fetched, sum_result, sum_report,
             sum_sent>>

(***************************************************************************)
(* Bounds of the model.  CompactThreshold and CompactKeep stand for the    *)
(* 2000 and 1000 of check_new_trades (lines 265-266), scaled down so that  *)
(* a compaction happens within a few passes.                               *)
(***************************************************************************)
MaxPasses == 2
MaxCmds == 2
MaxBoots == 2
CompactThreshold == 2
CompactKeep == 1
\* stands for the 15 of sorted_markets[:15] (line 335)
TopMarkets == 2
\* stands for the 4000 of send_telegram (lines 212-214)
ChunkSize == 3

\* len(address) < 10 is rejected by cmd_add
MinAddressLen == 10
\* f"Wallet {address[:8]}"
NamePrefixLen == 8

(***************************************************************************)
(* Strings                                                                 *)
(***************************************************************************)
Rep(c, n) == [i \in 1..n |-> c]

Take(s, n) == SubSeq(s, 1, IF Len(s) < n THEN Len(s) ELSE n)

StartsWith(s, p) == Len(s) >= Len(p) /\ SubSeq(s, 1, Len(p)) = p

UpperCase == <<"A", "B", "X", "U", "Y", "S", "E", "L">>
LowerCase == <<"a", "b", "x", "u", "y", "s", "e", "l">>

LowerChar(c) ==
    IF \E i \in DOMAIN UpperCase : UpperCase[i] = c
    THEN LowerCase[CHOOSE i \in DOMAIN UpperCase : UpperCase[i] = c]
    ELSE c

UpperChar(c) ==
    IF \E i \in DOMAIN LowerCase : LowerCase[i] = c
    THEN UpperCase[CHOOSE i \in DOMAIN LowerCase : LowerCase[i] = c]
    ELSE c

\* str.lower()
LowerStr(s) == [i \in DOMAIN s |-> LowerChar(s[i])]

\* str.upper()
UpperStr(s) == [i \in DOMAIN s |-> UpperChar(s[i])]

IsSpace(c) == c \in {" ", "\t", "\n"}

\* str.strip()
StripStr(s) ==
    LET keep == {i \in DOMAIN s : ~IsSpace(s[i])}
    IN  IF keep = {} THEN <<>>
        ELSE LET lo == CHOOSE i \in keep : \A j \in keep : i <= j
                 hi == CHOOSE i \in keep : \A j \in keep : j <= i
             IN  SubSeq(s, lo, hi)

RECURSIVE JoinSpace(_)
\* " ".join(words)
JoinSpace(words) ==
    IF words = <<>> THEN <<>>
    ELSE IF Len(words) = 1 THEN words[1]
    ELSE words[1] \o <<" ">> \o JoinSpace(Tail(words))

(***************************************************************************)
(* The registry: a Python dict of address -> name.  A dict keeps its       *)
(* entries in insertion order; a deleted entry leaves a dummy in the entry *)
(* array, and a dict iterator raises RuntimeError when the number of live  *)
(* entries differs from the number it saw when it was created.             *)
(***************************************************************************)
Entry(a, n) == [address |-> a, name |-> n, live |-> TRUE]
DummyEntry == [address |-> <<>>, name |-> <<>>, live |-> FALSE]

DictLen(d) == Cardinality({i \in DOMAIN d : d[i].live})
DictHas(d, k) == \E i \in DOMAIN d : d[i].live /\ d[i].address = k
DictIndex(d, k) == CHOOSE i \in DOMAIN d : d[i].live /\ d[i].address = k
DictGet(d, k) == d[DictIndex(d, k)].name

\* d[k] = v
DictSet(d, k, v) ==
    IF DictHas(d, k)
    THEN [d EXCEPT ![DictIndex(d, k)] = Entry(k, v)]
    ELSE Append(d, Entry(k, v))

\* d.pop(k)
DictPop(d, k) == [d EXCEPT ![DictIndex(d, k)] = DummyEntry]

\* list(d.items())
DictItems(d) == SelectSeq(d, LAMBDA e : e.live)

DictKeys(d) == LET items == DictItems(d) IN [i \in DOMAIN items |-> items[i].address]

\* iter(d.items())
DictIter(d) == [pos |-> 1, used |-> DictLen(d)]

NoIter == [pos |-> 0, used |-> 0]

\* next(it): RuntimeError when the dict changed size, StopIteration at the end
IterNext(d, it) ==
    LET rest == {i \in DOMAIN d : i >= it.pos /\ d[i].live}
    IN  IF it.used # DictLen(d) THEN [kind |-> "RuntimeError", item |-> DummyEntry, it |-> it]
        ELSE IF rest = {} THEN [kind |-> "StopIteration", item |-> DummyEntry, it |-> it]
        ELSE LET i == CHOOSE j \in rest : \A k \in rest : j <= k
             IN  [kind |-> "item", item |-> d[i], it |-> [it EXCEPT !.pos = i + 1]]

(***************************************************************************)
(* load_wallets and save_wallets                                           *)
(***************************************************************************)
WalletPrefix == <<"W", "a", "l", "l", "e", "t", " ">>
DefaultName(address) == WalletPrefix \o Take(address, NamePrefixLen)

RECURSIVE LoadEnv(_, _)
LoadEnv(raw, d) ==
    IF raw = <<>> THEN d
    ELSE LET w == LowerStr(StripStr(Head(raw)))
         IN  LoadEnv(Tail(raw),
                     IF StartsWith(w, <<"0", "x">>) THEN DictSet(d, w, DefaultName(w)) ELSE d)

\* a load that does not read the file
load_wallets_env_only(env, file) == LoadEnv(env, <<>>)

RECURSIVE DictUpdate(_, _)
\* d.update(saved)
DictUpdate(d, saved) ==
    IF saved = <<>> THEN d
    ELSE DictUpdate(DictSet(d, Head(saved).address, Head(saved).name), Tail(saved))

load_wallets(env, file) == DictUpdate(LoadEnv(env, <<>>), file)

\* json.dump(wallets, f)
save_wallets(d) == DictItems(d)

(***************************************************************************)
(* Inputs                                                                  *)
(***************************************************************************)
AddrA == <<"0", "x">> \o Rep("a", 8)
AddrB == <<"0", "x">> \o Rep("b", 8)
ArgAUpper == <<"0", "X">> \o Rep("A", 8)
ArgShort == <<"0", "X", "A", "b", "1", "2">>
ArgNoPrefix == Rep("a", 10)
ArgBlank == <<" ">>
NameWhale == <<"W", "h", "a", "l", "e">>

AddArgs == {<<>>, <<ArgAUpper>>, <<AddrB, NameWhale>>, <<ArgShort>>, <<ArgNoPrefix>>, <<ArgBlank>>}
RemoveArgs == {<<>>, <<ArgAUpper>>, <<AddrB>>}

EnvLists == {<<AddrA, AddrB>>}
SavedFiles == {<<>>, <<Entry(AddrA, NameWhale)>>}

(***************************************************************************)
(* Activity records, as returned by GET /activity.  A numeric field of the *)
(* JSON object is absent, null, a number, a numeric string or a string     *)
(* float() cannot parse.  An absent string field is Absent.                *)
(***************************************************************************)
Absent == "<absent>"

NumAbsent == [tag |-> "absent", num |-> 0]
NumNull == [tag |-> "null", num |-> 0]
Num(n) == [tag |-> "num", num |-> n]
NumStr(n) == [tag |-> "numstr", num |-> n]
BadStr == [tag |-> "badstr", num |-> 0]

\* act.get(key, '')
GetStr(v, default) == IF v = Absent THEN default ELSE v

\* act.get(key, 0) or 0: the argument handed to float()
GetOrZero(v) == IF v.tag \in {"absent", "null"} \/ (v.tag = "num" /\ v.num = 0) THEN Num(0) ELSE v

\* float(x) raises ValueError on a string that is no number
FloatRaises(v) == GetOrZero(v).tag = "badstr"
FloatOf(v) == GetOrZero(v).num

Act(type, hash, side, title, usdc, price, outcome) ==
    [dict |-> TRUE, type |-> type, transactionHash |-> hash, side |-> side,
     title |-> title, usdcSize |-> usdc, price |-> price, outcome |-> outcome]

\* an element of the JSON array that is no object
NotADict ==
    [dict |-> FALSE, type |-> Absent, transactionHash |-> Absent, side |-> <<>>,
     title |-> Absent, usdcSize |-> NumAbsent, price |-> NumAbsent, outcome |-> Absent]

SideBuy == <<"B", "U", "Y">>
SideSell == <<"S", "E", "L", "L">>
SideBuyLower == <<"b", "u", "y">>

Trade(hash) == Act("TRADE", hash, SideBuy, "Will X happen?", Num(100), Num(50), "Yes")
BadTrade(hash) == Act("TRADE", hash, SideSell, "Will X happen?", BadStr, Num(40), "No")

Hashes == {"h1", "h2", "h3", "h4"}

\* what get_wallet_activity(address, limit=5) may return in the short cycle
CheckFeeds ==
    { <<>>,
      <<Trade("h1"), Trade("h2")>>,
      <<Trade("h3"), Trade("h1")>>,
      <<NotADict, Act("REDEEM", "h2", SideBuy, "Will X happen?", Num(5), Num(50), "Yes"),
        Act("TRADE", Absent, SideBuy, Absent, NumAbsent, NumNull, Absent),
        BadTrade("h4"), Trade("h2")>> }

(***************************************************************************)
(* The event loop runs one coroutine at a time: a command handler or a job *)
(* runs only while every other coroutine is suspended at an await.  The    *)
(* application handles one update at a time, so no handler runs while      *)
(* cmd_summary awaits its pass.                                            *)
(***************************************************************************)
LoopFree ==
    /\ chk_pc \in {"idle", "await_send"}
    /\ sum_pc \in {"idle", "sleep", "await_send"}
    /\ ~(sum_pc # "idle" /\ sum_caller = "cmd")

(***************************************************************************)
(* /add and /remove                                                        *)
(***************************************************************************)
\* a normalisation that forgets .lower()
NormalizeNoLower(arg) == StripStr(arg)

\* args[0].strip().lower()
NormalizeAddress(arg) == LowerStr(StripStr(arg))

\* a validation that forgets the prefix
ValidAddressLengthOnly(address) == Len(address) >= MinAddressLen

\* not (not address.startswith('0x') or len(address) < 10)
ValidAddress(address) == StartsWith(address, <<"0", "x">>) /\ Len(address) >= MinAddressLen

cmd_add(args) ==
    /\ LoopFree
    /\ cmds < MaxCmds
    /\ cmds' = cmds + 1
    /\ last_cmd' = [op |-> "add", args |-> args]
    /\ IF Len(args) < 1
       THEN /\ reply' = "usage"
            /\ UNCHANGED <<wallets, wallets_file>>
       ELSE LET address == NormalizeAddress(args[1])
                name == IF Len(args) > 1 THEN JoinSpace(Tail(args)) ELSE DefaultName(address)
            IN  IF ~ValidAddress(address)
                THEN /\ reply' = "invalid"
                     /\ UNCHANGED <<wallets, wallets_file>>
                ELSE /\ wallets' = DictSet(wallets, address, name)
                     /\ wallets_file' = save_wallets(wallets')
                     /\ reply' = "added"

cmd_remove(args) ==
    /\ LoopFree
    /\ cmds < MaxCmds
    /\ cmds' = cmds + 1
    /\ last_cmd' = [op |-> "remove", args |-> args]
    /\ IF Len(args) < 1
       THEN /\ reply' = "usage"
            /\ UNCHANGED <<wallets, wallets_file>>
       ELSE LET address == NormalizeAddress(args[1])
            IN  IF DictHas(wallets, address)
                THEN /\ wallets' = DictPop(wallets, address)
                     /\ wallets_file' = save_wallets(wallets')
                     /\ reply' = "removed"
                ELSE /\ reply' = "not_found"
                     /\ UNCHANGED <<wallets, wallets_file>>

CmdAdd == (\E args \in AddArgs : cmd_add(args)) /\ UNCHANGED <<chkVars, runVars, otherVars, sumVars>>
CmdRemove == (\E args \in RemoveArgs : cmd_remove(args)) /\ UNCHANGED <<chkVars, runVars, otherVars, sumVars>>

(***************************************************************************)
(* check_new_trades                                                        *)
(***************************************************************************)
\* a test that forgets the seen set
IsNewNoDedup(tx_hash, seen) == tx_hash # ""

\* not (not tx_hash or tx_hash in self.seen_txs)
IsNew(tx_hash, seen) == tx_hash # "" /\ tx_hash \notin seen

\* the records the loop passes over: no dict, no TRADE, no hash, or seen
Skipped(act, seen) ==
    \/ ~act.dict
    \/ act.type # "TRADE"
    \/ ~IsNew(GetStr(act.transactionHash, ""), seen)

\* a threshold that is off by one
NeedsCompactionLate(seen) == Cardinality(seen) > CompactThreshold + 1

\* len(self.seen_txs) > 2000
NeedsCompaction(seen) == Cardinality(seen) > CompactThreshold

\* the slice [:-1000] in place of [-1000:]
CompactedSetsWrongSlice(seen) ==
    {S \in SUBSET seen : Cardinality(S) = Cardinality(seen) - CompactKeep}

\* set(list(self.seen_txs)[-1000:]): a set lists its elements in no order the
\* program controls, so the last 1000 of the list are any 1000 of the set
CompactedSets(seen) == {S \in SUBSET seen : Cardinality(S) = CompactKeep}

\* periodic_check: await self.check_new_trades(), the for statement's iter()
PeriodicCheck ==
    /\ chk_pc = "idle"
    /\ passes < MaxPasses
    /\ passes' = passes + 1
    /\ chk_pc' = "for"
    /\ chk_it' = DictIter(wallets)
    /\ chk_snapshot' = DictKeys(wallets)
    /\ chk_fetched' = <<>>
    /\ chk_errs' = <<>>
    /\ chk_dups' = {}
    /\ chk_result' = "running"
    /\ UNCHANGED <<seen_txs, notified, chk_cur, chk_acts>>
    /\ UNCHANGED <<regVars, runVars, otherVars, sumVars>>

\* for address, name in self.wallets.items(): the next item
ChkForNext ==
    /\ chk_pc = "for"
    /\ IterNext(wallets, chk_it).kind = "item"
    /\ chk_it' = IterNext(wallets, chk_it).it
    /\ chk_cur' = IterNext(wallets, chk_it).item
    /\ chk_pc' = "fetch"
    /\ UNCHANGED <<seen_txs, notified, passes, chk_acts, chk_result, chk_snapshot,
                   chk_fetched, chk_errs, chk_dups>>
    /\ UNCHANGED <<regVars, runVars, otherVars, sumVars>>

\* the for statement raises RuntimeError: it is outside the try, so the
\* exception leaves check_new_trades (periodic_check logs it)
ChkForRaises ==
    /\ chk_pc = "for"
    /\ IterNext(wallets, chk_it).kind = "RuntimeError"
    /\ chk_pc' = "idle"
    /\ chk_result' = "RuntimeError"
    /\ chk_it' = NoIter
    /\ chk_acts' = <<>>
    /\ UNCHANGED <<seen_txs, notified, passes, chk_cur, chk_snapshot, chk_fetched,
                   chk_errs, chk_dups>>
    /\ UNCHANGED <<regVars, runVars, otherVars, sumVars>>

\* the for statement ends: the compaction of lines 265-266, then return
ChkForEndsStep ==
    /\ chk_pc = "for"
    /\ IterNext(wallets, chk_it).kind = "StopIteration"
    /\ IF NeedsCompaction(seen_txs)
       THEN /\ seen_txs' \in CompactedSets(seen_txs)
            /\ chk_result' = "compacted"
       ELSE /\ seen_txs' = seen_txs
            /\ chk_result' = "completed"
    /\ chk_pc' = "idle"
    /\ chk_it' = NoIter
    /\ chk_acts' = <<>>
    /\ UNCHANGED <<notified, passes, chk_cur, chk_snapshot, chk_fetched, chk_errs, chk_dups>>
    /\ UNCHANGED <<regVars, runVars, sumVars>>

ChkForEnds == ChkForEndsStep /\ UNCHANGED otherVars

\* activities = self.get_wallet_activity(address, limit=5)
ChkFetch ==
    /\ chk_pc = "fetch"
    /\ \E acts \in CheckFeeds : chk_acts' = acts
    /\ chk_fetched' = Append(chk_fetched, chk_cur.address)
    /\ chk_pc' = "records"
    /\ UNCHANGED <<seen_txs, notified, passes, chk_it, chk_cur, chk_result, chk_snapshot,
                   chk_errs, chk_dups>>
    /\ UNCHANGED <<regVars, runVars, otherVars, sumVars>>

\* for act in activities: ... continue
ChkSkip ==
    /\ chk_pc = "records"
    /\ chk_acts # <<>>
    /\ Skipped(Head(chk_acts), seen_txs)
    /\ chk_acts' = Tail(chk_acts)
    /\ chk_dups' = IF Head(chk_acts).dict /\ Head(chk_acts).type = "TRADE"
                      /\ GetStr(Head(chk_acts).transactionHash, "") \in seen_txs
                   THEN chk_dups \cup {Head(chk_acts).transactionHash}
                   ELSE chk_dups
    /\ UNCHANGED <<seen_txs, notified, passes, chk_pc, chk_it, chk_cur, chk_result,
                   chk_snapshot, chk_fetched, chk_errs>>
    /\ UNCHANGED <<regVars, runVars, otherVars, sumVars>>

\* a try statement around the whole for statement: the exception ends the pass
ChkRaiseEndsPass ==
    /\ chk_pc = "records"
    /\ chk_acts # <<>>
    /\ ~Skipped(Head(chk_acts), seen_txs)
    /\ FloatRaises(Head(chk_acts).usdcSize) \/ FloatRaises(Head(chk_acts).price)
    /\ seen_txs' = seen_txs \cup {Head(chk_acts).transactionHash}
    /\ chk_errs' = Append(chk_errs, chk_cur.address)
    /\ chk_acts' = <<>>
    /\ chk_pc' = "idle"
    /\ chk_it' = NoIter
    /\ chk_result' = "Exception"
    /\ UNCHANGED <<notified, passes, chk_cur, chk_snapshot, chk_fetched, chk_dups>>
    /\ UNCHANGED <<regVars, runVars, otherVars, sumVars>>

\* a new trade whose usdcSize or price float() cannot parse: the hash is in
\* seen_txs already, the except clause logs and the for statement goes on
ChkRaiseStep ==
    /\ chk_pc = "records"
    /\ chk_acts # <<>>
    /\ ~Skipped(Head(chk_acts), seen_txs)
    /\ FloatRaises(Head(chk_acts).usdcSize) \/ FloatRaises(Head(chk_acts).price)
    /\ seen_txs' = seen_txs \cup {Head(chk_acts).transactionHash}
    /\ chk_errs' = Append(chk_errs, chk_cur.address)
    /\ chk_acts' = <<>>
    /\ chk_pc' = "for"
    /\ UNCHANGED <<notified, passes, chk_it, chk_cur, chk_result, chk_snapshot,
                   chk_fetched, chk_dups>>
    /\ UNCHANGED <<regVars, runVars, sumVars>>

ChkRaise == ChkRaiseStep /\ UNCHANGED otherVars

\* a notification that leaves self.seen_txs.add(tx_hash) out
ChkNotifyStepNoAdd ==
    /\ chk_pc = "records"
    /\ chk_acts # <<>>
    /\ ~Skipped(Head(chk_acts), seen_txs)
    /\ ~(FloatRaises(Head(chk_acts).usdcSize) \/ FloatRaises(Head(chk_acts).price))
    /\ seen_txs' = seen_txs
    /\ notified' = [notified EXCEPT ![Head(chk_acts).transactionHash] = @ + 1]
    /\ chk_acts' = Tail(chk_acts)
    /\ chk_pc' = "await_send"
    /\ UNCHANGED <<passes, chk_it, chk_cur, chk_result, chk_snapshot, chk_fetched,
                   chk_errs, chk_dups>>
    /\ UNCHANGED <<regVars, runVars, sumVars>>


\* a new trade: self.seen_txs.add(tx_hash), then await self.send_telegram(msg)
ChkNotifyStep ==
    /\ chk_pc = "records"
    /\ chk_acts # <<>>
    /\ ~Skipped(Head(chk_acts), seen_txs)
    /\ ~(FloatRaises(Head(chk_acts).usdcSize) \/ FloatRaises(Head(chk_acts).price))
    /\ seen_txs' = seen_txs \cup {Head(chk_acts).transactionHash}
    /\ notified' = [notified EXCEPT ![Head(chk_acts).transactionHash] = @ + 1]
    /\ chk_acts' = Tail(chk_acts)
    /\ chk_pc' = "await_send"
    /\ UNCHANGED <<passes, chk_it, chk_cur, chk_result, chk_snapshot, chk_fetched,
                   chk_errs, chk_dups>>
    /\ UNCHANGED <<regVars, runVars, sumVars>>

ChkNotify == ChkNotifyStep /\ UNCHANGED otherVars

\* send_telegram returns (it logs a delivery failure itself)
ChkResumeStep ==
    /\ chk_pc = "await_send"
    /\ chk_pc' = "records"
    /\ UNCHANGED <<seen_txs, notified, passes, chk_it, chk_cur, chk_acts, chk_result,
                   chk_snapshot, chk_fetched, chk_errs, chk_dups>>
    /\ UNCHANGED <<regVars, runVars, sumVars>>

ChkResume == ChkResumeStep /\ UNCHANGED otherVars

\* the inner for statement ends
ChkRecordsEnd ==
    /\ chk_pc = "records"
    /\ chk_acts = <<>>
    /\ chk_pc' = "for"
    /\ UNCHANGED <<seen_txs, notified, passes, chk_it, chk_cur, chk_acts, chk_result,
                   chk_snapshot, chk_fetched, chk_errs, chk_dups>>
    /\ UNCHANGED <<regVars, runVars, otherVars, sumVars>>

(***************************************************************************)
(* generate_wallet_summary: the fold of lines 283-313                      *)
(***************************************************************************)
\* the defaultdict's factory (lines 274-279)
NewAggregate(title) ==
    [title |-> title, wallets |-> {}, wallet_names |-> <<>>, buy_count |-> 0,
     sell_count |-> 0, total_usdc |-> 0, prices |-> <<>>, outcomes |-> <<>>,
     trader_names |-> {}]

HasMarket(mb, title) == \E i \in DOMAIN mb : mb[i].title = title
MarketIndex(mb, title) == CHOOSE i \in DOMAIN mb : mb[i].title = title

\* market_buys[title]: a missing key is inserted, after the keys there are
Touch(mb, title) == IF HasMarket(mb, title) THEN mb ELSE Append(mb, NewAggregate(title))

\* a fold that also passes over the records whose hash is in seen_txs
SumSkippedWhenSeen(act) ==
    \/ ~act.dict
    \/ act.type # "TRADE"
    \/ GetStr(act.title, "") = ""
    \/ GetStr(act.transactionHash, "") \in seen_txs

\* the records the fold passes over (lines 287-292)
SumSkipped(act) ==
    \/ ~act.dict
    \/ act.type # "TRADE"
    \/ GetStr(act.title, "") = ""

\* how many records of a response the fold does not pass over
Qualifying(acts) == Cardinality({i \in DOMAIN acts : ~SumSkipped(acts[i])})

\* a fold that adds the notional size of the BUY records only
FoldRecordVolumeOfBuys(mb, act, address, name) ==
    LET title == act.title
        usdc == FloatOf(act.usdcSize)
        price == FloatOf(act.price)
        outcome == GetStr(act.outcome, "")
        side == UpperStr(act.side)
        t == Touch(mb, title)
        i == MarketIndex(t, title)
        a == t[i]
    IN  [t EXCEPT ![i] =
            [a EXCEPT !.wallets = @ \cup {address},
                      !.wallet_names = Append(@, name),
                      !.total_usdc = IF side = SideBuy THEN @ + usdc ELSE @,
                      !.trader_names = @ \cup {name},
                      !.prices = IF price > 0 THEN Append(@, price) ELSE @,
                      !.outcomes = IF outcome # "" THEN Append(@, outcome) ELSE @,
                      !.buy_count = IF side = SideBuy THEN @ + 1 ELSE @,
                      !.sell_count = IF side = SideSell THEN @ + 1 ELSE @]]

\* a fold whose total_usdc += usdc is under the if price > 0
FoldRecordVolumeIfPriced(mb, act, address, name) ==
    LET title == act.title
        usdc == FloatOf(act.usdcSize)
        price == FloatOf(act.price)
        outcome == GetStr(act.outcome, "")
        side == UpperStr(act.side)
        t == Touch(mb, title)
        i == MarketIndex(t, title)
        a == t[i]
    IN  [t EXCEPT ![i] =
            [a EXCEPT !.wallets = @ \cup {address},
                      !.wallet_names = Append(@, name),
                      !.total_usdc = IF price > 0 THEN @ + usdc ELSE @,
                      !.trader_names = @ \cup {name},
                      !.prices = IF price > 0 THEN Append(@, price) ELSE @,
                      !.outcomes = IF outcome # "" THEN Append(@, outcome) ELSE @,
                      !.buy_count = IF side = SideBuy THEN @ + 1 ELSE @,
                      !.sell_count = IF side = SideSell THEN @ + 1 ELSE @]]

\* a fold with total_usdc = usdc in place of +=
FoldRecordVolumeAssigned(mb, act, address, name) ==
    LET title == act.title
        usdc == FloatOf(act.usdcSize)
        price == FloatOf(act.price)
        outcome == GetStr(act.outcome, "")
        side == UpperStr(act.side)
        t == Touch(mb, title)
        i == MarketIndex(t, title)
        a == t[i]
    IN  [t EXCEPT ![i] =
            [a EXCEPT !.wallets = @ \cup {address},
                      !.wallet_names = Append(@, name),
                      !.total_usdc = usdc,
                      !.trader_names = @ \cup {name},
                      !.prices = IF price > 0 THEN Append(@, price) ELSE @,
                      !.outcomes = IF outcome # "" THEN Append(@, outcome) ELSE @,
                      !.buy_count = IF side = SideBuy THEN @ + 1 ELSE @,
                      !.sell_count = IF side = SideSell THEN @ + 1 ELSE @]]

\* lines 295-313, for a record float() can parse
FoldRecord(mb, act, address, name) ==
    LET title == act.title
        usdc == FloatOf(act.usdcSize)
        price == FloatOf(act.price)
        outcome == GetStr(act.outcome, "")
        side == UpperStr(act.side)
        t == Touch(mb, title)
        i == MarketIndex(t, title)
        a == t[i]
    IN  [t EXCEPT ![i] =
            [a EXCEPT !.wallets = @ \cup {address},
                      !.wallet_names = Append(@, name),
                      !.total_usdc = @ + usdc,
                      !.trader_names = @ \cup {name},
                      !.prices = IF price > 0 THEN Append(@, price) ELSE @,
                      !.outcomes = IF outcome # "" THEN Append(@, outcome) ELSE @,
                      !.buy_count = IF side = SideBuy THEN @ + 1 ELSE @,
                      !.sell_count = IF side = SideSell THEN @ + 1 ELSE @]]

(***************************************************************************)
(* generate_wallet_summary: the report of lines 317-364                    *)
(***************************************************************************)
RECURSIVE InsertByBuyCount(_, _)
\* e goes after every element whose buy_count is at least its own
InsertByBuyCount(sorted, e) ==
    IF sorted = <<>> THEN <<e>>
    ELSE IF Head(sorted).buy_count >= e.buy_count
         THEN <<Head(sorted)>> \o InsertByBuyCount(Tail(sorted), e)
         ELSE <<e>> \o sorted

RECURSIVE SortFrom(_, _)
SortFrom(sorted, rest) ==
    IF rest = <<>> THEN sorted
    ELSE SortFrom(InsertByBuyCount(sorted, Head(rest)), Tail(rest))

Reverse(q) == [i \in DOMAIN q |-> q[Len(q) + 1 - i]]

RECURSIVE InsertAscending(_, _)
InsertAscending(sorted, e) ==
    IF sorted = <<>> THEN <<e>>
    ELSE IF Head(sorted).buy_count <= e.buy_count
         THEN <<Head(sorted)>> \o InsertAscending(Tail(sorted), e)
         ELSE <<e>> \o sorted

RECURSIVE SortAscendingFrom(_, _)
SortAscendingFrom(sorted, rest) ==
    IF rest = <<>> THEN sorted
    ELSE SortAscendingFrom(InsertAscending(sorted, Head(rest)), Tail(rest))

\* sorted(...)[::-1] in place of sorted(..., reverse=True): ties come out reversed
SortedMarketsByReversal(mb) == Reverse(SortAscendingFrom(<<>>, mb))

\* sorted(market_buys.items(), key=lambda x: x[1]["buy_count"], reverse=True):
\* a stable sort, and reverse=True keeps the order of equal keys
SortedMarkets(mb) == SortFrom(<<>>, mb)

RECURSIVE SumSeq(_)
SumSeq(q) == IF q = <<>> THEN 0 ELSE Head(q) + SumSeq(Tail(q))

Count(q, x) == Cardinality({i \in DOMAIN q : q[i] = x})

\* Counter(outcomes).most_common(1)[0][0]: the first met of the most frequent
MostCommon(q) ==
    LET best == {i \in DOMAIN q : \A j \in DOMAIN q : Count(q, q[j]) <= Count(q, q[i])}
    IN  q[CHOOSE i \in best : \A j \in best : i <= j]

FireHigh == 5
FireMiddle == 3
FireLow == 2

\* lines 339-346
Fire(buy_count) ==
    IF buy_count >= FireHigh THEN "high"
    ELSE IF buy_count >= FireMiddle THEN "middle"
    ELSE IF buy_count >= FireLow THEN "low"
    ELSE "none"

\* the lines of one market (lines 336-362); the average price is kept as the
\* sum and the count of the prices
ReportEntry(a) ==
    [market |-> a.title, fire |-> Fire(a.buy_count), buy_count |-> a.buy_count,
     sell_count |-> a.sell_count, wallet_count |-> Cardinality(a.wallets),
     total_usdc |-> a.total_usdc, price_sum |-> SumSeq(a.prices),
     price_count |-> Len(a.prices),
     top_outcome |-> IF a.outcomes # <<>> THEN MostCommon(a.outcomes) ELSE "",
     traders |-> a.trader_names]

NoReport == [text |-> "none", wallet_count |-> 0, total_trades |-> 0, entries |-> <<>>]
EmptyReport == [text |-> "", wallet_count |-> 0, total_trades |-> 0, entries |-> <<>>]

\* a report without the test of lines 317-318: the header alone when no market was met
BuildReportAlways(mb, registry, trades) ==
    LET top == Take(SortedMarkets(mb), TopMarkets)
    IN  [text |-> "report", wallet_count |-> DictLen(registry), total_trades |-> trades,
         entries |-> [i \in DOMAIN top |-> ReportEntry(top[i])]]

\* f"{avg_price:.2f}" of line 360, in hundredths: sum(prices) / len(prices) to
\* the nearest hundredth, 0 without prices (a quotient that ends in half a
\* hundredth goes by its binary float; the reports of the model have none)
PrixMoy(price_sum, price_count) ==
    IF price_count = 0 THEN 0 ELSE (2 * price_sum + price_count) \div (2 * price_count)

\* lines 317-364: "" without markets, else the header and the first 15 markets
BuildReport(mb, registry, trades) ==
    IF mb = <<>> THEN EmptyReport
    ELSE LET top == Take(SortedMarkets(mb), TopMarkets)
         IN  [text |-> "report", wallet_count |-> DictLen(registry), total_trades |-> trades,
              entries |-> [i \in DOMAIN top |-> ReportEntry(top[i])]]

(***************************************************************************)
(* generate_wallet_summary as a coroutine.  One summary pass is in flight  *)
(* at a time.                                                              *)
(***************************************************************************)
Buy(title, hash) == Act("TRADE", hash, SideBuy, title, Num(100), Num(50), "Yes")
Sell(title, hash) == Act("TRADE", hash, SideSell, title, Num(30), Num(40), "No")

\* what get_wallet_activity(address, limit=50) may return in a summary pass
SummaryFeeds ==
    { <<>>,
      <<Buy("M1", "h1"), Buy("M2", "h2"), Buy("M2", "h3")>>,
      <<Buy("M3", "h4"), Sell("M1", "h1"),
        Act("TRADE", Absent, SideBuyLower, "M3", NumStr(40), NumAbsent, Absent)>>,
      <<NotADict, Act("REDEEM", "h2", SideBuy, "M1", Num(5), Num(50), "Yes"),
        Act("TRADE", "h3", SideBuy, Absent, Num(5), Num(50), "Yes"),
        Act("TRADE", "h4", SideBuy, "M2", BadStr, Num(50), "Yes"), Buy("M3", "h1")>>,
      <<NotADict, Act("REDEEM", "h1", SideBuy, "M1", Num(5), Num(50), "Yes"),
        Act("TRADE", "h2", SideBuy, "", Num(5), Num(50), "Yes")>>,
      <<Act("TRADE", "h3", <<>>, "M1", Num(7), Num(50), "Yes"), Sell("M2", "h2")>> }

(***************************************************************************)
(* The example pass of the specification: "Alpha" has 3 BUY trades of      *)
(* sizes 100, 200, 50 at 0.5, 0.6, 0.55 and 1 SELL of size 30 at 0.4,      *)
(* "Beta" has 2 BUY trades of sizes 40 and 60 at 0.5, all on one market.   *)
(***************************************************************************)
NameAlpha == <<"A", "l", "p", "h", "a">>
NameBeta == <<"B", "e", "t", "a">>
ExampleTitle == "Will X happen?"
ExampleFile == <<Entry(AddrA, NameAlpha), Entry(AddrB, NameBeta)>>

AlphaFeed ==
    << Act("TRADE", "e1", SideBuy, ExampleTitle, Num(100), Num(50), "Yes"),
       Act("TRADE", "e2", SideBuy, ExampleTitle, Num(200), Num(60), "Yes"),
       Act("TRADE", "e3", SideBuy, ExampleTitle, Num(50), Num(55), "Yes"),
       Act("TRADE", "e4", SideSell, ExampleTitle, Num(30), Num(40), "Yes") >>

BetaFeed ==
    << Act("TRADE", "e5", SideBuy, ExampleTitle, Num(40), Num(50), "Yes"),
       Act("TRADE", "e6", SideBuy, ExampleTitle, Num(60), Num(50), "Yes") >>

ExampleFeeds == {<<>>, AlphaFeed, BetaFeed}

\* a record with the wallet whose activity holds it
Pair(address, name, act) == [address |-> address, name |-> name, act |-> act]

\* the (wallet, record) pairs of the example pass
ExamplePairs ==
    [i \in 1..4 |-> Pair(AddrA, NameAlpha, AlphaFeed[i])]
    \o [i \in 1..2 |-> Pair(AddrB, NameBeta, BetaFeed[i])]

\* generate_wallet_summary is called: lines 274-283, the for statement's iter()
SumStart(caller) ==
    /\ LoopFree
    /\ sum_pc = "idle"
    /\ sum_pc' = "for"
    /\ sum_caller' = caller
    /\ sum_it' = DictIter(wallets)
    /\ market_buys' = <<>>
    /\ total_trades' = 0
    /\ sum_snapshot' = DictKeys(wallets)
    /\ sum_returned' = 0
    /\ sum_folded' = <<>>
    /\ sum_fetched' = <<>>
    /\ sum_result' = "running"
    /\ sum_report' = NoReport
    /\ sum_sent' = FALSE
    /\ UNCHANGED <<sum_cur, sum_acts>>

\* periodic_summary, run by the job queue
PeriodicSummary ==
    /\ started
    /\ "periodic_summary" \in job_queue
    /\ SumStart("job")
    /\ UNCHANGED <<regVars, chkVars, runVars, otherVars>>

\* /summary
CmdSummary ==
    /\ started
    /\ cmds < MaxCmds
    /\ cmds' = cmds + 1
    /\ last_cmd' = [op |-> "summary", args |-> <<>>]
    /\ reply' = "analysing"
    /\ SumStart("cmd")
    /\ UNCHANGED <<wallets, wallets_file, chkVars, runVars, otherVars>>

\* for address, name in self.wallets.items(): the next item
SumForNext ==
    /\ sum_pc = "for"
    /\ IterNext(wallets, sum_it).kind = "item"
    /\ sum_it' = IterNext(wallets, sum_it).it
    /\ sum_cur' = IterNext(wallets, sum_it).item
    /\ sum_pc' = "fetch"
    /\ UNCHANGED <<sum_caller, sum_acts, market_buys, total_trades, sum_snapshot, sum_returned, sum_folded, sum_fetched,
                   sum_result, sum_report, sum_sent>>
    /\ UNCHANGED <<regVars, chkVars, runVars, otherVars>>

\* the for statement raises RuntimeError, which leaves generate_wallet_summary
SumForRaises ==
    /\ sum_pc = "for"
    /\ IterNext(wallets, sum_it).kind = "RuntimeError"
    /\ sum_pc' = "idle"
    /\ sum_result' = "RuntimeError"
    /\ sum_it' = NoIter
    /\ sum_acts' = <<>>
    /\ UNCHANGED <<sum_caller, sum_cur, market_buys, total_trades, sum_snapshot, sum_returned, sum_folded, sum_fetched,
                   sum_report, sum_sent>>
    /\ UNCHANGED <<regVars, chkVars, runVars, otherVars>>

\* activities = self.get_wallet_activity(address, limit=50), the API returning
\* one of feeds
SumFetchFrom(feeds) ==
    /\ sum_pc = "fetch"
    /\ \E acts \in feeds : sum_acts' = acts
    /\ sum_fetched' = Append(sum_fetched, sum_cur.address)
    /\ sum_returned' = sum_returned + Qualifying(sum_acts')
    /\ sum_pc' = "records"
    /\ UNCHANGED <<sum_caller, sum_it, sum_cur, market_buys, total_trades, sum_snapshot, sum_folded,
                   sum_result, sum_report, sum_sent>>
    /\ UNCHANGED <<regVars, chkVars, runVars, otherVars>>

SumFetch == SumFetchFrom(SummaryFeeds)

\* the fetch of the example pass
ExampleFetch == SumFetchFrom(ExampleFeeds)

\* for act in activities: ... continue
SumSkip ==
    /\ sum_pc = "records"
    /\ sum_acts # <<>>
    /\ SumSkipped(Head(sum_acts))
    /\ sum_acts' = Tail(sum_acts)
    /\ UNCHANGED <<sum_pc, sum_caller, sum_it, sum_cur, market_buys, total_trades,
                   sum_snapshot, sum_returned, sum_folded, sum_fetched, sum_result, sum_report, sum_sent>>
    /\ UNCHANGED <<regVars, chkVars, runVars, otherVars>>

\* float() raises ValueError at line 296 or 297: no try statement is around
\* it, so the exception leaves generate_wallet_summary
SumRaise ==
    /\ sum_pc = "records"
    /\ sum_acts # <<>>
    /\ ~SumSkipped(Head(sum_acts))
    /\ FloatRaises(Head(sum_acts).usdcSize) \/ FloatRaises(Head(sum_acts).price)
    /\ total_trades' = total_trades + 1
    /\ sum_pc' = "idle"
    /\ sum_result' = "ValueError"
    /\ sum_it' = NoIter
    /\ UNCHANGED <<sum_caller, sum_cur, sum_acts, market_buys, sum_snapshot, sum_returned, sum_folded, sum_fetched, sum_report,
                   sum_sent>>
    /\ UNCHANGED <<regVars, chkVars, runVars, otherVars>>

\* lines 294-313
SumFold ==
    /\ sum_pc = "records"
    /\ sum_acts # <<>>
    /\ ~SumSkipped(Head(sum_acts))
    /\ ~(FloatRaises(Head(sum_acts).usdcSize) \/ FloatRaises(Head(sum_acts).price))
    /\ total_trades' = total_trades + 1
    /\ market_buys' = FoldRecord(market_buys, Head(sum_acts), sum_cur.address, sum_cur.name)
    /\ sum_acts' = Tail(sum_acts)
    /\ sum_folded' = Append(sum_folded, Pair(sum_cur.address, sum_cur.name, Head(sum_acts)))
    /\ UNCHANGED <<sum_pc, sum_caller, sum_it, sum_cur, sum_snapshot, sum_returned, sum_fetched, sum_result,
                   sum_report, sum_sent>>
    /\ UNCHANGED <<regVars, chkVars, runVars, otherVars>>

\* the inner for statement ends: await asyncio.sleep(0.3)
SumSleep ==
    /\ sum_pc = "records"
    /\ sum_acts = <<>>
    /\ sum_pc' = "sleep"
    /\ UNCHANGED <<sum_caller, sum_it, sum_cur, sum_acts, market_buys, total_trades,
                   sum_snapshot, sum_returned, sum_folded, sum_fetched, sum_result, sum_report, sum_sent>>
    /\ UNCHANGED <<regVars, chkVars, runVars, otherVars>>

\* the sleep is over
SumWake ==
    /\ sum_pc = "sleep"
    /\ sum_pc' = "for"
    /\ UNCHANGED <<sum_caller, sum_it, sum_cur, sum_acts, market_buys, total_trades,
                   sum_snapshot, sum_returned, sum_folded, sum_fetched, sum_result, sum_report, sum_sent>>
    /\ UNCHANGED <<regVars, chkVars, runVars, otherVars>>

\* the for statement ends: lines 317-364 build the report, and the caller
\* (lines 158-161 or 382-386) hands it to send_telegram unless it is ""
SumForEnds ==
    /\ sum_pc = "for"
    /\ IterNext(wallets, sum_it).kind = "StopIteration"
    /\ sum_report' = BuildReport(market_buys, wallets, total_trades)
    /\ sum_result' = "completed"
    /\ sum_it' = NoIter
    /\ IF sum_report'.text # ""
       THEN /\ sum_sent' = TRUE
            /\ sum_pc' = "await_send"
            /\ reply' = reply
       ELSE /\ sum_sent' = FALSE
            /\ sum_pc' = "idle"
            /\ reply' = IF sum_caller = "cmd" THEN "no_data" ELSE reply
    /\ UNCHANGED <<sum_caller, sum_cur, sum_acts, market_buys, total_trades, sum_snapshot, sum_returned, sum_folded, sum_fetched>>
    /\ UNCHANGED <<wallets, wallets_file, last_cmd, cmds, chkVars, runVars, otherVars>>

\* send_telegram(summary) returns
SumSent ==
    /\ sum_pc = "await_send"
    /\ sum_pc' = "idle"
    /\ UNCHANGED <<sum_caller, sum_it, sum_cur, sum_acts, market_buys, total_trades,
                   sum_snapshot, sum_returned, sum_folded, sum_fetched, sum_result, sum_report, sum_sent>>
    /\ UNCHANGED <<regVars, chkVars, runVars, otherVars>>

(***************************************************************************)
(* run(): the handlers and the jobs it registers                           *)
(***************************************************************************)
\* lines 402-434: the command handlers, one repeating job, the polling
Run ==
    /\ ~started
    /\ started' = TRUE
    /\ job_queue' = {"periodic_summary"}
    /\ UNCHANGED <<regVars, chkVars, sumVars, otherVars>>

(***************************************************************************)
(* The short cycle with the command interface: PolymarketTracker() is      *)
(* constructed, then periodic_check and the /add and /remove handlers run  *)
(* on one event loop.                                                      *)
(***************************************************************************)
RegInit ==
    /\ tracked_wallets \in EnvLists
    /\ \E file \in SavedFiles :
          /\ wallets = load_wallets(tracked_wallets, file)
          /\ wallets_file = file
    /\ reply = "none"
    /\ last_cmd = [op |-> "none", args |-> <<>>]
    /\ cmds = 0

ChkInit ==
    /\ seen_txs = {}
    /\ notified = [h \in Hashes |-> 0]
    /\ passes = 0
    /\ chk_pc = "idle"
    /\ chk_it = NoIter
    /\ chk_cur = DummyEntry
    /\ chk_acts = <<>>
    /\ chk_result = "none"
    /\ chk_snapshot = <<>>
    /\ chk_fetched = <<>>
    /\ chk_errs = <<>>
    /\ chk_dups = {}

SumInit ==
    /\ sum_pc = "idle"
    /\ sum_caller = "none"
    /\ sum_it = NoIter
    /\ sum_cur = DummyEntry
    /\ sum_acts = <<>>
    /\ market_buys = <<>>
    /\ total_trades = 0
    /\ sum_snapshot = <<>>
    /\ sum_returned = 0
    /\ sum_folded = <<>>
    /\ sum_fetched = <<>>
    /\ sum_result = "none"
    /\ sum_report = NoReport
    /\ sum_sent = FALSE

Range(f) == {f[i] : i \in DOMAIN f}

\* no history yet
HistIdle ==
    /\ seen_order = <<>>
    /\ chk_failed = {}

\* no send_telegram call is in flight
SendIdle ==
    /\ send_msg = <<>>
    /\ send_pc = "idle"
    /\ send_i = 0
    /\ send_out = <<>>
    /\ send_err = FALSE

\* no collection is being folded
FoldIdle ==
    /\ fold_pairs = <<>>
    /\ fold_order = <<>>
    /\ fold_mb = <<>>
    /\ fold_total = 0

Init ==
    /\ RegInit
    /\ ChkInit
    /\ SumInit
    /\ started = FALSE
    /\ job_queue = {}
    /\ boots = 0
    /\ FoldIdle
    /\ SendIdle
    /\ HistIdle

Next ==
    \/ CmdAdd
    \/ CmdRemove
    \/ PeriodicCheck
    \/ ChkForNext
    \/ ChkForRaises
    \/ ChkForEnds
    \/ ChkFetch
    \/ ChkSkip
    \/ ChkRaise
    \/ ChkNotify
    \/ ChkResume
    \/ ChkRecordsEnd

Spec == Init /\ [][Next]_vars

(***************************************************************************)
(* The program as run() starts it: the handlers of /add, /remove and       *)
(* /summary and the jobs of the job queue.  run() gives the job queue      *)
(* periodic_summary only, and no handler calls periodic_check, so no step  *)
(* of check_new_trades is a step of this system.                           *)
(***************************************************************************)
SumStep ==
    \/ SumForNext
    \/ SumForRaises
    \/ SumFetch
    \/ SumSkip
    \/ SumRaise
    \/ SumFold
    \/ SumSleep
    \/ SumWake
    \/ SumForEnds
    \/ SumSent

SysNext ==
    \/ Run
    \/ PeriodicSummary
    \/ CmdSummary
    \/ (started /\ CmdAdd)
    \/ (started /\ CmdRemove)
    \/ SumStep

SysSpec == Init /\ [][SysNext]_vars

\* the job queue runs a due job, and the event loop resumes a coroutine whose
\* await is over
FairSysSpec == SysSpec /\ WF_vars(PeriodicSummary) /\ WF_vars(SumStep)

(***************************************************************************)
(* The example pass: the registry file names the two wallets "Alpha" and   *)
(* "Beta", and the API returns the example's records.                      *)
(***************************************************************************)
ExampleInit ==
    /\ tracked_wallets \in EnvLists
    /\ wallets = load_wallets(tracked_wallets, ExampleFile)
    /\ wallets_file = ExampleFile
    /\ reply = "none"
    /\ last_cmd = [op |-> "none", args |-> <<>>]
    /\ cmds = 0
    /\ ChkInit
    /\ SumInit
    /\ started = FALSE
    /\ job_queue = {}
    /\ boots = 0
    /\ FoldIdle
    /\ SendIdle
    /\ HistIdle

ExampleNext ==
    \/ Run
    \/ PeriodicSummary
    \/ CmdSummary
    \/ SumForNext
    \/ ExampleFetch
    \/ SumFold
    \/ SumSleep
    \/ SumWake
    \/ SumForEnds
    \/ SumSent

ExampleSpec == ExampleInit /\ [][ExampleNext]_vars

(***************************************************************************)
(* The fold of lines 294-313 on its own: a collection of (wallet, record)  *)
(* pairs is folded into a fresh market_buys, one pair at a time, in any    *)
(* order.                                                                  *)
(***************************************************************************)
MixedPairs ==
    << Pair(AddrA, NameWhale, Buy("M1", "h1")),
       Pair(AddrB, DefaultName(AddrB), Sell("M1", "h1")),
       Pair(AddrA, NameWhale, Buy("M2", "h2")),
       Pair(AddrB, DefaultName(AddrB),
            Act("TRADE", Absent, SideBuyLower, "M2", NumStr(40), NumAbsent, Absent)),
       Pair(AddrB, DefaultName(AddrB), Act("TRADE", "h3", <<>>, "M1", Num(7), Num(50), "No")),
       Pair(AddrA, NameWhale, Buy("M1", "h1")) >>

FoldCollections ==
    {ExamplePairs, MixedPairs}

FoldInit ==
    /\ RegInit
    /\ ChkInit
    /\ SumInit
    /\ started = FALSE
    /\ job_queue = {}
    /\ boots = 0
    /\ fold_pairs \in FoldCollections
    /\ fold_order = <<>>
    /\ fold_mb = <<>>
    /\ fold_total = 0
    /\ SendIdle
    /\ HistIdle

\* lines 294-313 for one more pair of the collection, whichever
FoldAny ==
    /\ \E i \in DOMAIN fold_pairs \ Range(fold_order) :
          /\ fold_order' = Append(fold_order, i)
          /\ fold_mb' = FoldRecord(fold_mb, fold_pairs[i].act, fold_pairs[i].address,
                                   fold_pairs[i].name)
    /\ fold_total' = fold_total + 1
    /\ UNCHANGED <<fold_pairs, envVars, sendVars, histVars, regVars, chkVars, runVars, sumVars>>

FoldNext == FoldAny

FoldSpec == FoldInit /\ [][FoldNext]_vars

(***************************************************************************)
(* The short cycle with its history: the registry is as loaded, and the    *)
(* steps that add to seen_txs or remove from it keep seen_order, the       *)
(* members of seen_txs from the oldest insertion to the latest.  The       *)
(* channel takes a notification or refuses it; send_telegram logs the      *)
(* refusal (line 219) and returns either way.                              *)
(***************************************************************************)
Last(q) == q[Len(q)]

\* the last n elements of a sequence
LastN(q, n) == SubSeq(q, IF Len(q) > n THEN Len(q) - n + 1 ELSE 1, Len(q))

TrackedForEnds ==
    /\ ChkForEndsStep
    /\ seen_order' = SelectSeq(seen_order, LAMBDA h : h \in seen_txs')
    /\ UNCHANGED <<envVars, foldVars, sendVars, chk_failed>>

TrackedRaise ==
    /\ ChkRaiseStep
    /\ seen_order' = Append(seen_order, Head(chk_acts).transactionHash)
    /\ UNCHANGED <<envVars, foldVars, sendVars, chk_failed>>

TrackedNotify ==
    /\ ChkNotifyStep
    /\ seen_order' = Append(seen_order, Head(chk_acts).transactionHash)
    /\ UNCHANGED <<envVars, foldVars, sendVars, chk_failed>>

\* bot.send_message raises for the notification of the hash added last:
\* send_telegram prints the error and returns
ChkDeliveryFails ==
    /\ ChkResumeStep
    /\ chk_failed' = chk_failed \cup {Last(seen_order)}
    /\ UNCHANGED <<envVars, foldVars, sendVars, seen_order>>

DedupNext ==
    \/ PeriodicCheck
    \/ ChkForNext
    \/ TrackedForEnds
    \/ ChkFetch
    \/ ChkSkip
    \/ TrackedRaise
    \/ TrackedNotify
    \/ ChkResume
    \/ ChkDeliveryFails
    \/ ChkRecordsEnd

DedupSpec == Init /\ [][DedupNext]_vars

(***************************************************************************)
(* The two cycles on one event loop, as the documentation of               *)
(* periodic_check and periodic_summary has them: a coroutine runs from one *)
(* await to the next while the other is suspended at an await or idle.     *)
(* The registry is as loaded.                                              *)
(***************************************************************************)
\* check_new_trades is idle or suspended
ChkSuspended == chk_pc \in {"idle", "await_send"}

\* generate_wallet_summary and its caller are idle or suspended
SumSuspended == sum_pc \in {"idle", "sleep", "await_send"}

BothNext ==
    \/ Run
    \/ (SumSuspended /\ PeriodicCheck)
    \/ (SumSuspended /\ ChkForNext)
    \/ (SumSuspended /\ ChkForEnds)
    \/ (SumSuspended /\ ChkFetch)
    \/ (SumSuspended /\ ChkSkip)
    \/ (SumSuspended /\ ChkRaise)
    \/ (SumSuspended /\ ChkNotify)
    \/ (SumSuspended /\ ChkResume)
    \/ (SumSuspended /\ ChkRecordsEnd)
    \/ PeriodicSummary
    \/ (ChkSuspended /\ SumForNext)
    \/ (ChkSuspended /\ SumFetch)
    \/ (ChkSuspended /\ SumSkip)
    \/ (ChkSuspended /\ SumRaise)
    \/ (ChkSuspended /\ SumFold)
    \/ (ChkSuspended /\ SumSleep)
    \/ (ChkSuspended /\ SumWake)
    \/ (ChkSuspended /\ SumForEnds)
    \/ (ChkSuspended /\ SumSent)

BothSpec == Init /\ [][BothNext]_vars

(***************************************************************************)
(* The registry across restarts: the process is stopped and started again, *)
(* and PolymarketTracker() loads the registry from the environment and     *)
(* from the file the commands wrote.                                       *)
(***************************************************************************)
RegEnvLists == {<<>>, <<AddrA>>, <<ArgAUpper, AddrB>>}

RegSpecInit ==
    /\ tracked_wallets \in RegEnvLists
    /\ \E file \in SavedFiles :
          /\ wallets = load_wallets(tracked_wallets, file)
          /\ wallets_file = file
    /\ reply = "none"
    /\ last_cmd = [op |-> "none", args |-> <<>>]
    /\ cmds = 0
    /\ ChkInit
    /\ SumInit
    /\ started = FALSE
    /\ job_queue = {}
    /\ boots = 0
    /\ FoldIdle
    /\ SendIdle
    /\ HistIdle

\* the process starts again: __init__ (lines 86-93) on the same environment
\* and the file as the last save left it
Restart ==
    /\ boots < MaxBoots
    /\ boots' = boots + 1
    /\ wallets' = load_wallets(tracked_wallets, wallets_file)
    /\ seen_txs' = {}
    /\ reply' = "none"
    /\ started' = FALSE
    /\ job_queue' = {}
    /\ chk_pc' = "idle"
    /\ chk_it' = NoIter
    /\ chk_acts' = <<>>
    /\ sum_pc' = "idle"
    /\ sum_it' = NoIter
    /\ sum_acts' = <<>>
    /\ UNCHANGED <<wallets_file, last_cmd, cmds, tracked_wallets>>
    /\ UNCHANGED <<notified, passes, chk_cur, chk_result, chk_snapshot, chk_fetched,
                   chk_errs, chk_dups>>
    /\ UNCHANGED <<sum_caller, sum_cur, market_buys, total_trades, sum_snapshot,
                   sum_returned, sum_folded, sum_fetched, sum_result, sum_report, sum_sent>>
    /\ UNCHANGED <<foldVars, sendVars, histVars>>

RegNext ==
    \/ CmdAdd
    \/ CmdRemove
    \/ Restart

RegSpec == RegSpecInit /\ [][RegNext]_vars

(***************************************************************************)
(* send_telegram on its own: one call at a time, for any message of up to  *)
(* MaxMsgLen characters.  bot.send_message either delivers the text or     *)
(* raises, and the except clause of line 219 ends the call.                *)
(***************************************************************************)
MaxMsgLen == 2 * ChunkSize + 1
Alphabet == {"a", "b"}
Messages == UNION {[1..n -> Alphabet] : n \in 0..MaxMsgLen}

\* s[i:j] for 0 <= i <= j
Slice(s, i, j) == SubSeq(s, i + 1, IF j < Len(s) THEN j ELSE Len(s))

\* a chunk that stops one character early
ChunkShort(message, i) == Slice(message, i, i + ChunkSize - 1)

\* message[i:i + 4000]
Chunk(message, i) == Slice(message, i, i + ChunkSize)

\* send_telegram(message) is about to be called, for any message
SendInit ==
    /\ RegInit
    /\ ChkInit
    /\ SumInit
    /\ started = FALSE
    /\ job_queue = {}
    /\ boots = 0
    /\ FoldIdle
    /\ send_msg \in Messages
    /\ send_pc = "call"
    /\ send_i = 0
    /\ send_out = <<>>
    /\ send_err = FALSE
    /\ HistIdle

\* line 212: if len(message) > 4000
SendCall ==
    /\ send_pc = "call"
    /\ send_pc' = IF Len(send_msg) > ChunkSize THEN "for" ELSE "whole"
    /\ send_i' = 0
    /\ UNCHANGED <<send_msg, send_out, send_err>>
    /\ UNCHANGED <<envVars, foldVars, histVars, regVars, chkVars, runVars, sumVars>>

\* lines 214-215: the channel takes the chunk
SendChunk ==
    /\ send_pc = "for"
    /\ send_i < Len(send_msg)
    /\ send_out' = Append(send_out, Chunk(send_msg, send_i))
    /\ send_pc' = "sleep"
    /\ UNCHANGED <<send_msg, send_i, send_err>>
    /\ UNCHANGED <<envVars, foldVars, histVars, regVars, chkVars, runVars, sumVars>>

\* lines 214-215, 218-219: bot.send_message raises, the loop is left
SendChunkFails ==
    /\ send_pc = "for"
    /\ send_i < Len(send_msg)
    /\ send_err' = TRUE
    /\ send_pc' = "idle"
    /\ UNCHANGED <<send_msg, send_i, send_out>>
    /\ UNCHANGED <<envVars, foldVars, histVars, regVars, chkVars, runVars, sumVars>>

\* line 216, then the next i of range(0, len(message), 4000)
SendPace ==
    /\ send_pc = "sleep"
    /\ send_i' = send_i + ChunkSize
    /\ send_pc' = "for"
    /\ UNCHANGED <<send_msg, send_out, send_err>>
    /\ UNCHANGED <<envVars, foldVars, histVars, regVars, chkVars, runVars, sumVars>>

\* the range is exhausted
SendForEnds ==
    /\ send_pc = "for"
    /\ send_i >= Len(send_msg)
    /\ send_pc' = "idle"
    /\ UNCHANGED <<send_msg, send_i, send_out, send_err>>
    /\ UNCHANGED <<envVars, foldVars, histVars, regVars, chkVars, runVars, sumVars>>

\* line 218: the channel takes the message
SendWhole ==
    /\ send_pc = "whole"
    /\ send_out' = Append(send_out, send_msg)
    /\ send_pc' = "idle"
    /\ UNCHANGED <<send_msg, send_i, send_err>>
    /\ UNCHANGED <<envVars, foldVars, histVars, regVars, chkVars, runVars, sumVars>>

\* lines 218-219: bot.send_message raises
SendWholeFails ==
    /\ send_pc = "whole"
    /\ send_err' = TRUE
    /\ send_pc' = "idle"
    /\ UNCHANGED <<send_msg, send_i, send_out>>
    /\ UNCHANGED <<envVars, foldVars, histVars, regVars, chkVars, runVars, sumVars>>

SendNext ==
    \/ SendCall
    \/ SendChunk
    \/ SendChunkFails
    \/ SendPace
    \/ SendForEnds
    \/ SendWhole
    \/ SendWholeFails

SendSpec == SendInit /\ [][SendNext]_vars

(***************************************************************************)
(* Properties of the short cycle and of the commands                       *)
(***************************************************************************)

PassEnded == chk_pc = "idle" /\ chk_result # "none"
PassRanToEnd == chk_pc = "idle" /\ chk_result \in {"completed", "compacted"}

\* C1 as stated: over all passes, every transaction hash is handed to the
\* notification sink at most once.
C1_AtMostOneNotification == \A h \in Hashes : notified[h] <= 1

\* C1 as amended: a hash is handed to the notification sink only while it is
\* not in seen_txs, one notification at a time, and is in seen_txs from then
\* on; it leaves seen_txs only by the compaction that ends a pass.
C1_NotifiedOnlyWhenUntracked ==
    [][\A h \in Hashes :
          /\ notified'[h] # notified[h] =>
                /\ h \notin seen_txs
                /\ h \in seen_txs'
                /\ notified'[h] = notified[h] + 1
          /\ (h \in seen_txs /\ h \notin seen_txs') =>
                /\ chk_pc = "for"
                /\ chk_result' = "compacted"]_vars

\* a hash notified once was returned again, to a later pass, and passed over
C1_Witness ==
    /\ passes >= 2
    /\ \E h \in chk_dups : notified[h] = 1 /\ h \in seen_txs

\* the wallet loop of the summary pass is over, by its end or by an
\* exception of the for statement itself
SumLoopOver == sum_result \in {"completed", "RuntimeError"}

\* C3 as stated: a cycle whose wallet loop is over did not fail and fetched
\* exactly the wallets that were in the registry when it started, in the
\* short cycle and in the summary pass.
C3_CycleUsesSnapshot ==
    /\ PassEnded =>
          (chk_result # "RuntimeError" /\ chk_fetched = chk_snapshot)
    /\ SumLoopOver =>
          (sum_result # "RuntimeError" /\ sum_fetched = sum_snapshot)

\* C4 as stated: seen_txs never holds more than the threshold.
C4_SeenNeverAboveThreshold == Cardinality(seen_txs) <= CompactThreshold

\* C4 as amended: after a pass whose for statement ran to its end, and until
\* the next pass starts, seen_txs holds at most the threshold.
C4_SeenBoundedAfterPass ==
    PassRanToEnd => Cardinality(seen_txs) <= CompactThreshold

\* a pass that went above the threshold has ended
C4_Witness ==
    /\ PassRanToEnd
    /\ chk_result = "compacted"
    /\ Cardinality(seen_txs) <= CompactThreshold

\* C5: when a pass ends with more than the threshold in seen_txs, seen_txs
\* has exactly CompactKeep entries afterwards, all of them from before.
C5_CompactionKeepsExactly ==
    [][(/\ chk_pc = "for"
        /\ chk_pc' = "idle"
        /\ chk_result' # "RuntimeError"
        /\ Cardinality(seen_txs) > CompactThreshold)
       => (/\ Cardinality(seen_txs') = CompactKeep
           /\ seen_txs' \subseteq seen_txs)]_vars

\* a compaction has evicted a hash that had been notified
C5_Witness ==
    /\ chk_result = "compacted"
    /\ Cardinality(seen_txs) = CompactKeep
    /\ \E h \in Hashes : notified[h] > 0 /\ h \notin seen_txs

\* the step of an /add whose argument is args
AddStep(args) == cmds' = cmds + 1 /\ last_cmd' = [op |-> "add", args |-> args]

\* C6: an /add whose address, trimmed and lowercased, is empty or does not
\* begin with "0x" gets the error reply and changes neither the registry nor
\* the saved file.
C6_InvalidAddRejected ==
    [][\A args \in AddArgs :
          (/\ AddStep(args)
           /\ Len(args) >= 1
           /\ LET a == LowerStr(StripStr(args[1]))
              IN  a = <<>> \/ ~StartsWith(a, <<"0", "x">>))
          => (/\ reply' = "invalid"
              /\ wallets' = wallets
              /\ wallets_file' = wallets_file)]_vars

\* an /add without the prefix was rejected by a registry that holds wallets
C6_Witness ==
    /\ last_cmd.op = "add"
    /\ Len(last_cmd.args) >= 1
    /\ ~StartsWith(LowerStr(StripStr(last_cmd.args[1])), <<"0", "x">>)
    /\ reply = "invalid"
    /\ DictLen(wallets) > 0

\* C7 as stated: every address that is non-empty and begins with "0x" once
\* lowercased is accepted and stored under its lowercased form.
C7_AcceptsEveryPrefixed ==
    [][\A args \in AddArgs :
          (/\ AddStep(args)
           /\ Len(args) >= 1
           /\ StartsWith(LowerStr(StripStr(args[1])), <<"0", "x">>))
          => (/\ reply' = "added"
              /\ DictHas(wallets', LowerStr(StripStr(args[1]))))]_vars

\* C7 as amended: every address that begins with "0x" once lowercased and has
\* at least 10 characters is accepted and stored under its lowercased form,
\* in the registry and in the saved file.
C7_AcceptsLongPrefixed ==
    [][\A args \in AddArgs :
          (/\ AddStep(args)
           /\ Len(args) >= 1
           /\ StartsWith(LowerStr(StripStr(args[1])), <<"0", "x">>)
           /\ Len(LowerStr(StripStr(args[1]))) >= MinAddressLen)
          => (/\ reply' = "added"
              /\ DictHas(wallets', LowerStr(StripStr(args[1])))
              /\ \E i \in DOMAIN wallets_file' :
                    wallets_file'[i].address = LowerStr(StripStr(args[1])))]_vars

\* an address given in upper case is in the registry in lower case
C7_Witness ==
    /\ last_cmd.op = "add"
    /\ Len(last_cmd.args) >= 1
    /\ last_cmd.args[1] # LowerStr(last_cmd.args[1])
    /\ reply = "added"
    /\ DictHas(wallets, LowerStr(StripStr(last_cmd.args[1])))
    /\ ~DictHas(wallets, last_cmd.args[1])

\* C9: an exception raised by the records of one wallet hands control back to
\* the for statement, its iterator and the pass untouched, and a pass whose
\* for statement runs to its end has fetched every wallet of the registry.
C9_RecordExceptionIsolated ==
    [][/\ Len(chk_errs') > Len(chk_errs) =>
             /\ chk_pc' = "for"
             /\ chk_it' = chk_it
             /\ chk_result' = "running"
             /\ chk_fetched' = chk_fetched
       /\ (chk_pc = "for" /\ chk_pc' = "idle" /\ chk_result' # "RuntimeError") =>
             /\ chk_result' \in {"completed", "compacted"}
             /\ \A k \in Range(DictKeys(wallets)) : k \in Range(chk_fetched)]_vars

\* the records of the first wallet raised and the second wallet was fetched
C9_Witness ==
    /\ PassRanToEnd
    /\ Len(chk_fetched) >= 2
    /\ chk_fetched[1] \in Range(chk_errs)
    /\ chk_fetched[Len(chk_fetched)] \notin Range(chk_errs)

(***************************************************************************)
(* Properties of the running system and of the summary pass                *)
(***************************************************************************)
\* a summary pass holds a TRADE record of a watched wallet whose hash h is
\* non-empty and not in seen_txs
FreshTradeReturned(h) ==
    /\ started
    /\ sum_pc = "records"
    /\ DictHas(wallets, sum_cur.address)
    /\ h \notin seen_txs
    /\ \E i \in DOMAIN sum_acts :
          /\ sum_acts[i].dict
          /\ sum_acts[i].type = "TRADE"
          /\ sum_acts[i].transactionHash = h

\* C2 as stated: once run() has started the bot, a TRADE record with a fresh
\* hash in a watched wallet's recent activity is eventually handed to the
\* notification sink as an individual notification.
C2_FreshTradeEventuallyNotified ==
    \A h \in Hashes : FreshTradeReturned(h) ~> (notified[h] > 0)

\* C8 as stated: no summary pass is ended by a malformed record.
C8_MalformedRecordNeverAborts == sum_result # "ValueError"

\* C10: the entries of a report are in descending order of buy_count, entries
\* of equal buy_count are in the order in which the pass first met their
\* markets, and there are at most TopMarkets of them.
C10_ReportRanked ==
    sum_report.text = "report" =>
        LET e == sum_report.entries
            met(i) == MarketIndex(market_buys, e[i].market)
        IN  /\ Len(e) <= TopMarkets
            /\ \A i \in DOMAIN e :
                  /\ HasMarket(market_buys, e[i].market)
                  /\ e[i].buy_count = market_buys[met(i)].buy_count
            /\ \A i, j \in DOMAIN e :
                  i < j => \/ e[i].buy_count > e[j].buy_count
                           \/ e[i].buy_count = e[j].buy_count /\ met(i) < met(j)

\* a report cut to TopMarkets entries, whose first two tie, and whose first
\* market is not the one the pass met first
C10_Witness ==
    /\ sum_report.text = "report"
    /\ Len(sum_report.entries) = TopMarkets
    /\ Len(market_buys) > TopMarkets
    /\ sum_report.entries[1].buy_count = sum_report.entries[2].buy_count
    /\ MarketIndex(market_buys, sum_report.entries[1].market) > 1

(***************************************************************************)
(* Properties of the aggregation                                           *)
(***************************************************************************)
\* the records a pass folded for one title
FoldedFor(title) == {i \in DOMAIN sum_folded : sum_folded[i].act.title = title}

\* the sizes of the records a pass folded for one title, added up
VolumeFor(title) ==
    SumSeq([i \in DOMAIN sum_folded |->
               IF sum_folded[i].act.title = title THEN FloatOf(sum_folded[i].act.usdcSize)
               ELSE 0])

\* the same elements, each as many times
SameBag(p, q) ==
    /\ Len(p) = Len(q)
    /\ \A x \in Range(p) \cup Range(q) : Count(p, x) = Count(q, x)

\* C11: a summary pass that was returned no TRADE record with a title has an
\* empty aggregate map and hands nothing to the notification sink; when it
\* completes, generate_wallet_summary has returned the empty report and the
\* caller, job or command, is over without a send.
C11_NoTradesNoSummary ==
    (sum_result # "none" /\ sum_returned = 0) =>
        /\ market_buys = <<>>
        /\ ~sum_sent
        /\ sum_pc # "await_send"
        /\ sum_result = "completed" => (sum_report = EmptyReport /\ sum_pc = "idle")

\* /summary has completed a pass over a watched wallet that was returned no
\* TRADE record with a title
C11_Witness ==
    /\ sum_result = "completed"
    /\ sum_caller = "cmd"
    /\ sum_fetched # <<>>
    /\ sum_returned = 0
    /\ reply = "no_data"

\* a completed pass that folded the example's records, and no other
ExamplePass == sum_result = "completed" /\ SameBag(sum_folded, ExamplePairs)

\* C12: in the example pass the market's aggregate has buy_count 5,
\* sell_count 1, total_usdc 480 and 2 wallets, and its report entry has the
\* same numbers and the highest tier.
C12_ExampleAggregate ==
    ExamplePass =>
        /\ Len(market_buys) = 1
        /\ market_buys[1].title = ExampleTitle
        /\ market_buys[1].buy_count = 5
        /\ market_buys[1].sell_count = 1
        /\ market_buys[1].total_usdc = 480
        /\ Cardinality(market_buys[1].wallets) = 2
        /\ Len(sum_report.entries) = 1
        /\ sum_report.entries[1].buy_count = 5
        /\ sum_report.entries[1].sell_count = 1
        /\ sum_report.entries[1].total_usdc = 480
        /\ sum_report.entries[1].wallet_count = 2
        /\ sum_report.entries[1].fire = "high"

\* the example pass has completed and its report is on its way to the sink
C12_Witness ==
    /\ ExamplePass
    /\ sum_fetched = <<AddrA, AddrB>>
    /\ sum_sent

\* C13 as stated: in the example pass the average price reported for the
\* market is 0.53.
C13_ExampleAveragePrice ==
    ExamplePass =>
        PrixMoy(sum_report.entries[1].price_sum, sum_report.entries[1].price_count) = 53

\* C18: at every point of a pass and for every market of the map, buy_count +
\* sell_count is at most the number of records folded for the title, less by
\* one for every folded record whose side is neither BUY nor SELL, and
\* total_usdc is the sum of the sizes of all the records folded for the title.
C18_CountsAndVolume ==
    /\ \A i \in DOMAIN sum_folded : HasMarket(market_buys, sum_folded[i].act.title)
    /\ \A m \in DOMAIN market_buys :
          LET a == market_buys[m]
              recs == FoldedFor(a.title)
              sided == {i \in recs : UpperStr(sum_folded[i].act.side) \in {SideBuy, SideSell}}
          IN  /\ a.buy_count + a.sell_count <= Cardinality(recs)
              /\ a.buy_count + a.sell_count = Cardinality(sided)
              /\ a.total_usdc = VolumeFor(a.title)

\* a market for which the pass folded a BUY, a SELL and a record of neither
\* side: fewer counted than folded, and the volume has all three sizes
C18_Witness ==
    \E m \in DOMAIN market_buys :
        /\ market_buys[m].buy_count > 0
        /\ market_buys[m].sell_count > 0
        /\ market_buys[m].buy_count + market_buys[m].sell_count
              < Cardinality(FoldedFor(market_buys[m].title))
        /\ market_buys[m].total_usdc > 0

(***************************************************************************)
(* Properties of the fold on its own                                       *)
(***************************************************************************)
RECURSIVE FoldAll(_, _)
\* the pairs of a sequence folded from left to right
FoldAll(mb, pairs) ==
    IF pairs = <<>> THEN mb
    ELSE FoldAll(FoldRecord(mb, Head(pairs).act, Head(pairs).address, Head(pairs).name),
                 Tail(pairs))

\* the fields of the aggregates that the claim compares, per market
Commutative(mb) ==
    { [title |-> mb[i].title, buy_count |-> mb[i].buy_count, sell_count |-> mb[i].sell_count,
       wallets |-> mb[i].wallets, total_usdc |-> mb[i].total_usdc] : i \in DOMAIN mb }

RECURSIVE Concat(_)
\* the texts of a sequence, one after the other
Concat(texts) == IF texts = <<>> THEN <<>> ELSE Head(texts) \o Concat(Tail(texts))

\* a send_telegram call has returned without a delivery failure
SendReturned == send_pc = "idle" /\ ~send_err /\ send_out # <<>>

\* C15: the texts the channel takes from a call are of at most ChunkSize
\* characters when the message is longer than that, they are consecutive
\* pieces of the message from its start, in order, and once the call has
\* returned without a delivery failure they make up exactly the message; a
\* message of at most ChunkSize characters is taken as one text.
C15_ChunksMakeMessage ==
    /\ Len(send_msg) > ChunkSize =>
          \A k \in DOMAIN send_out : Len(send_out[k]) \in 1..ChunkSize
    /\ Concat(send_out) = Take(send_msg, Len(Concat(send_out)))
    /\ SendReturned => Concat(send_out) = send_msg
    /\ (SendReturned /\ Len(send_msg) <= ChunkSize) => send_out = <<send_msg>>
    /\ (SendReturned /\ Len(send_msg) > ChunkSize) => Len(send_out) > 1

\* a message of more than two chunks was sent whole, its last chunk shorter
C15_Witness ==
    /\ SendReturned
    /\ Len(send_msg) = MaxMsgLen
    /\ Len(send_out) = 3
    /\ Len(send_out[3]) < ChunkSize
    /\ send_out[1] # send_out[2]

(***************************************************************************)
(* Properties of the registry across restarts                              *)
(***************************************************************************)
\* the registry as a mapping
Mapping(d) == {<<d[i].address, d[i].name>> : i \in {j \in DOMAIN d : d[j].live}}

\* the addresses load_wallets takes from the environment
SeedAddresses == {e[1] : e \in Mapping(LoadEnv(tracked_wallets, <<>>))}

\* a restart that follows a successful /add or /remove
RestartAfterCommand == boots' = boots + 1 /\ reply \in {"added", "removed"}

\* C14 as stated: the registry loaded by a restart equals the registry as it
\* was after the last command.
C14_RestartKeepsRegistry ==
    [][RestartAfterCommand => Mapping(wallets') = Mapping(wallets)]_vars

\* C14 as amended: every wallet of the registry as it was after the last
\* command is loaded with its name, and a wallet that is loaded without
\* having been there is a wallet of the environment's list, under its default
\* name.
C14_RestartKeepsAddedAndSeeds ==
    [][RestartAfterCommand =>
          /\ Mapping(wallets) \subseteq Mapping(wallets')
          /\ \A e \in Mapping(wallets') \ Mapping(wallets) :
                /\ e[1] \in SeedAddresses
                /\ e[2] = DefaultName(e[1])
                /\ ~DictHas(wallets, e[1])]_vars

\* after a restart that followed a command, the registry holds a wallet that
\* the environment does not name, under the name /add gave it
C14_Witness ==
    /\ boots > 0
    /\ last_cmd.op = "add"
    /\ \E e \in Mapping(wallets) : e[1] \notin SeedAddresses /\ e[2] = NameWhale
    /\ wallets_file = save_wallets(wallets)

(***************************************************************************)
(* Properties of the short cycle with its history                          *)
(***************************************************************************)
\* the step of lines 265-266 that compacts
CompactionStep == chk_pc = "for" /\ chk_pc' = "idle" /\ chk_result' = "compacted"

\* C16 as stated: a compaction retains the CompactKeep hashes added last.
C16_KeepsMostRecent ==
    [][CompactionStep => seen_txs' = Range(LastN(seen_order, CompactKeep))]_vars

\* the channel refuses a notification
DeliveryFailsStep == chk_pc = "await_send" /\ chk_failed' # chk_failed

\* C17: when the channel refuses a notification, the refusal is logged, the
\* pass goes on with the records that follow, nothing is handed to the
\* channel again by that step, and the hash is and stays in seen_txs; no
\* step hands the channel a refused hash while that hash is in seen_txs.
C17_FailedNotRetried ==
    [][/\ DeliveryFailsStep =>
            /\ chk_failed' = chk_failed \cup {Last(seen_order)}
            /\ Last(seen_order) \in seen_txs
            /\ seen_txs' = seen_txs
            /\ notified' = notified
            /\ chk_pc' = "records"
            /\ chk_acts' = chk_acts
            /\ chk_it' = chk_it
       /\ \A h \in chk_failed : notified'[h] > notified[h] => h \notin seen_txs]_vars

\* a later pass was returned a hash whose notification was refused and that
\* is still in seen_txs, and passed over it
C17_Witness ==
    \E h \in chk_failed :
        /\ h \in seen_txs
        /\ h \in chk_dups
        /\ notified[h] = 1
        /\ passes > 1

(***************************************************************************)
(* Properties of the two cycles together                                   *)
(***************************************************************************)
\* a step of generate_wallet_summary or of its caller
SummaryStep == sumVars' # sumVars

\* the record the fold is at is a TRADE with a title, with numbers float()
\* parses, and its hash is in seen_txs
SeenTradeAtHead ==
    /\ sum_pc = "records"
    /\ sum_acts # <<>>
    /\ Head(sum_acts).dict
    /\ Head(sum_acts).type = "TRADE"
    /\ GetStr(Head(sum_acts).title, "") # ""
    /\ ~FloatRaises(Head(sum_acts).usdcSize)
    /\ ~FloatRaises(Head(sum_acts).price)
    /\ GetStr(Head(sum_acts).transactionHash, "") \in seen_txs

\* C20: no step of a summary pass changes seen_txs, the registry or its
\* file; a pass starts from an empty market_buys and a zero total_trades; and
\* the step that takes a trade whose hash is in seen_txs counts it, in
\* total_trades and in the aggregate of its market.
C20_SummaryIgnoresSeenSet ==
    [][SummaryStep =>
          /\ seen_txs' = seen_txs
          /\ wallets' = wallets
          /\ wallets_file' = wallets_file
          /\ (sum_pc = "idle" /\ sum_pc' # "idle") =>
                (market_buys' = <<>> /\ total_trades' = 0)
          /\ SeenTradeAtHead =>
                LET title == Head(sum_acts).title
                    before == IF HasMarket(market_buys, title)
                              THEN Len(market_buys[MarketIndex(market_buys, title)].wallet_names)
                              ELSE 0
                IN  /\ total_trades' = total_trades + 1
                    /\ sum_folded' = Append(sum_folded,
                                            Pair(sum_cur.address, sum_cur.name, Head(sum_acts)))
                    /\ HasMarket(market_buys', title)
                    /\ Len(market_buys'[MarketIndex(market_buys', title)].wallet_names)
                          = before + 1]_vars

\* a summary on its way to the channel counts a trade that the short cycle
\* has notified and whose hash is in seen_txs, and it is not the first
\* summary since
C20_Witness ==
    /\ sum_sent
    /\ sum_pc = "await_send"
    /\ seen_txs # {}
    /\ \E i \in DOMAIN sum_folded :
          /\ sum_folded[i].act.transactionHash \in seen_txs
          /\ notified[sum_folded[i].act.transactionHash] > 0
    /\ sum_report.total_trades = Len(sum_folded)

====
